---------------------------- MODULE Spec2Model ----------------------------
(***************************************************************************)
(* Model of the ColdMailBot API.                                           *)
(*                                                                         *)
(*   - src/server.js: the POST /api/send-emails handler, which validates   *)
(*     a JSON request, verifies one mail transport and then streams the    *)
(*     campaign as server-sent events (the "streamed" mode);               *)
(*   - src/emailservice.js: sendEmails, which reads the contact rows of a  *)
(*     CSV file and returns one aggregate result (the "buffered" mode).    *)
(*                                                                         *)
(* The mail transport (nodemailer) is the environment: verify and every    *)
(* sendMail either resolve or reject.  The outcome of the send for the     *)
(* i-th contact is recorded in `delivery` by whichever mode asks first,    *)
(* so that both modes see the same transport behaviour per contact.        *)
(* An action runs the handler from one suspension point (await) to the     *)
(* next; everything between two awaits is synchronous in Node.             *)
(* res.write of a string never throws in Node (a closed or ended response  *)
(* reports the error asynchronously), so writes always append an event.    *)
(*                                                                         *)
(* Specifications:                                                         *)
(*   Spec        one streamed and one buffered campaign, interleaved;      *)
(*   SpecFault   Spec plus an exception raised between two contacts;       *)
(*   SpecLive    Spec with sends that settle and timers that fire;         *)
(*   SpecPair    two streamed campaigns handled concurrently;              *)
(*   SpecUpload  sendEmails called by the upload route, with any template  *)
(*               file or none;                                             *)
(*   SpecRender  personalize on its own;                                   *)
(*   SpecAuth    a request to a protected route, from authenticateApiKey   *)
(*               on, with any key and any API_KEYS;                        *)
(*   SpecSink    the streamed route with a client that may close the       *)
(*               connection and an exception between two contacts;         *)
(*   SpecStore   two requests storing uploads through multer.              *)
(***************************************************************************)
EXTENDS Integers, Sequences, FiniteSets, TLC

\* Longest contact list (JSON array or CSV rows) the model enumerates.
MaxLen == 3

\* server.js:281  parseInt(process.env.MAX_EMAILS_PER_REQUEST) || 50
DefaultMaxEmails == 50

\* server.js:408  setTimeout(resolve, 2000)
StreamDelayMs == 2000

\* emailservice.js:18  delay: delayMatch ? parseInt(delayMatch[1]) : 3
DefaultDelay == 3

VARIABLES
    req,          \* req.body of POST /api/send-emails
    envMaxEmails, \* process.env.MAX_EMAILS_PER_REQUEST (sequence of characters, <<>> when unset)
    rows,         \* the rows csv-parser yields from contactsPath (sendEmails)
    delivery,     \* transport behaviour: delivery[k] is the outcome of the send for the k-th contact
    pc,           \* position of the streamed handler
    i,            \* loop index of the streamed handler (0-based, as in the code)
    successful,   \* server.js:326
    failed,       \* server.js:327
    results,      \* server.js:328
    res,          \* the HTTP response: status, headersSent, ended, JSON body kind
    trace,        \* what the handler did, in order: events written to res, transport calls
                  \* and their settlements, timers started
    pcB,          \* position of sendEmails
    iB,           \* loop index of sendEmails (0-based)
    success,      \* emailservice.js:68
    fail,         \* emailservice.js:68
    failedEmails, \* emailservice.js:68
    result,       \* value sendEmails resolves with
    traceB,       \* what sendEmails did, in order: transport calls, settlements, timers
    configFile,   \* the file at configPath (sendEmails)
    config,       \* emailservice.js:49
    uploads,      \* the files of the campaign that exist in the upload directory
    pcR,          \* position of the upload route that calls sendEmails
    template,     \* personalize: first argument
    values,       \* personalize: second argument (vars in the code)
    rendered,     \* personalize: returned text
    pcP,          \* position of the call of personalize
    other,        \* a second request of POST /api/send-emails whose handler is suspended:
                  \* its body and the local state of its handler
    route,        \* the protected route the request is for
    headerKey,    \* req.headers['x-api-key'] (sequence of characters, <<>> when absent or empty)
    queryKey,     \* req.query.api_key (sequence of characters, <<>> when absent or empty)
    envApiKeys,   \* process.env.API_KEYS (sequence of characters, <<>> when unset or empty)
    testBody,     \* req.body of POST /api/test-connection
    sinkClosedAt, \* length of trace when the client closed the connection, -1 while it is open
    now,          \* Date.now()
    stored,       \* the upload directory: the stored name of every file and the request
                  \* whose upload its content is
    received      \* the files multer stored, in order, with the name each was stored under

vars == << req, envMaxEmails, rows, delivery, pc, i, successful, failed, results,
           res, trace, pcB, iB, success, fail, failedEmails, result, traceB,
           configFile, config, uploads, pcR, template, values, rendered, pcP, other,
           route, headerKey, queryKey, envApiKeys, testBody, sinkClosedAt,
           now, stored, received >>

\* What no step of a campaign writes: its inputs, and the state of its caller.
renderVars == << template, values, rendered, pcP >>
storageVars == << now, stored, received >>
edgeVars == << route, headerKey, queryKey, envApiKeys, testBody, sinkClosedAt, storageVars >>
callerVars == << req, envMaxEmails, rows, configFile, uploads, pcR, renderVars, other, edgeVars >>

streamVars == << pc, i, successful, failed, results, res, trace >>
bufferedVars == << pcB, iB, success, fail, failedEmails, result, traceB, config >>

-----------------------------------------------------------------------------
(* Inputs *)

\* An e-mail address is a sequence of one-character strings.
AddrSam == << "a", "@", "b", ".", "c" >>
AddrAnn == << "b", ".", "a", "@", "c", ".", "b", ".", "a" >>
AddrNoDot == << "a", "@", "b" >>
AddrSpace == << "a", " ", "@", "b", ".", "c" >>
AddrTwoAt == << "a", "@", "@", "b", ".", "c" >>

Contact(n, e, c) == [isNull |-> FALSE, name |-> n, email |-> e, company |-> c]

\* A JSON null inside the contacts array.
NullEntry == [isNull |-> TRUE, name |-> "", email |-> << >>, company |-> ""]

Sam == Contact("Sam", AddrSam, "Acme")
Ann == Contact("Ann", AddrAnn, "Init")

\* Array entries of a request body: well-formed contacts, contacts with a
\* missing or empty field, contacts with a malformed address, and null.
Entries ==
    { Sam, Ann, NullEntry,
      Contact("", AddrSam, "Acme"),
      Contact("Sam", << >>, "Acme"),
      Contact("Sam", AddrSam, ""),
      Contact("Sam", AddrNoDot, "Acme"),
      Contact("Ann", AddrSpace, "Init"),
      Contact("Ann", AddrTwoAt, "Init") }

\* Rows of a CSV file: csv-parser yields one object per line, never null.
CsvRows == { Sam, Ann, Contact("Sam", AddrNoDot, "Acme"), Contact("", AddrAnn, "Init") }

SeqsUpTo(S, n) == UNION { [1..k -> S] : k \in 0..n }

\* req.body.contacts: absent, a JSON value that is not an array, or an array.
ContactsInputs ==
    { [kind |-> "absent", items |-> << >>], [kind |-> "notlist", items |-> << >>] }
    \cup { [kind |-> "list", items |-> s] : s \in SeqsUpTo(Entries, MaxLen) }

Requests ==
    [ gmail_email : { "", "me" }, gmail_password : { "", "pw" }, contacts : ContactsInputs ]

EnvValues == { << >>, << "0" >>, << "2" >> }

-----------------------------------------------------------------------------
(* server.js: pure helpers *)

\* The character class [^\s@] of the address pattern.
NotSpaceOrAt(ch) == ch /= " " /\ ch /= "@"

AllNotSpaceOrAt(e, lo, hi) == \A k \in lo..hi : NotSpaceOrAt(e[k])

\* /^[^\s@]+@[^\s@]+\.[^\s@]+$/.test(email): some "@" at position a and some
\* "." at position d split the address into three non-empty runs of [^\s@].
isValidEmail(e) ==
    \E a \in 1..Len(e) : \E d \in 1..Len(e) :
        /\ e[a] = "@"
        /\ e[d] = "."
        /\ 1 < a
        /\ a + 1 < d
        /\ d < Len(e)
        /\ AllNotSpaceOrAt(e, 1, a - 1)
        /\ AllNotSpaceOrAt(e, a + 1, d - 1)
        /\ AllNotSpaceOrAt(e, d + 1, Len(e))

DigitValue(ch) ==
    CASE ch = "0" -> 0 [] ch = "1" -> 1 [] ch = "2" -> 2 [] ch = "3" -> 3
      [] ch = "4" -> 4 [] ch = "5" -> 5 [] ch = "6" -> 6 [] ch = "7" -> 7
      [] ch = "8" -> 8 [] ch = "9" -> 9 [] OTHER -> -1

\* NaN is modelled as -1 (the model has no signed inputs).
NaN == -1

RECURSIVE ParseDigits(_, _, _)
ParseDigits(s, k, acc) ==
    IF k > Len(s) \/ DigitValue(s[k]) < 0 THEN acc
    ELSE ParseDigits(s, k + 1, acc * 10 + DigitValue(s[k]))

\* parseInt of an environment value: the leading decimal digits, NaN when
\* the variable is unset or does not start with a digit.
parseInt(s) ==
    IF Len(s) = 0 \/ DigitValue(s[1]) < 0 THEN NaN ELSE ParseDigits(s, 1, 0)

\* const maxEmails = parseInt(process.env.MAX_EMAILS_PER_REQUEST) || 50;
\* NaN and 0 are falsy.
maxEmails(env) ==
    IF parseInt(env) = NaN \/ parseInt(env) = 0 THEN DefaultMaxEmails ELSE parseInt(env)

\* The per-contact checks of the validation loop, from index k (1-based) on:
\* the first offending entry decides the answer.  Reading .name of null
\* throws a TypeError.
RECURSIVE ValidateContacts(_, _)
ValidateContacts(cs, k) ==
    IF k > Len(cs) THEN "ok"
    ELSE IF cs[k].isNull THEN "throw"
    ELSE IF cs[k].name = "" \/ cs[k].email = << >> \/ cs[k].company = "" THEN "invalid_contact"
    ELSE IF ~isValidEmail(cs[k].email) THEN "invalid_email"
    ELSE ValidateContacts(cs, k + 1)

\* Mutant: the size check written with >= instead of >.
ValidateLimitInclusive(r, env) ==
    IF r.gmail_email = "" \/ r.gmail_password = "" THEN "credentials_required"
    ELSE IF r.contacts.kind /= "list" \/ Len(r.contacts.items) = 0 THEN "contacts_required"
    ELSE IF Len(r.contacts.items) >= maxEmails(env) THEN "limit"
    ELSE ValidateContacts(r.contacts.items, 1)

\* The synchronous validation of the handler: the first failing check
\* decides; "ok" lets the handler go on to the transport.
Validate(r, env) ==
    IF r.gmail_email = "" \/ r.gmail_password = "" THEN "credentials_required"
    ELSE IF r.contacts.kind /= "list" \/ Len(r.contacts.items) = 0 THEN "contacts_required"
    ELSE IF Len(r.contacts.items) > maxEmails(env) THEN "limit"
    ELSE ValidateContacts(r.contacts.items, 1)

-----------------------------------------------------------------------------
(* server.js: POST /api/send-emails *)

N == Len(req.contacts.items)

\* contacts[k] of the code (TLA+ sequences are 1-based).
ContactAt(k) == req.contacts.items[k + 1]

NoResponse == [status |-> 0, headersSent |-> FALSE, ended |-> FALSE, body |-> "none"]

\* res.status(code).json({success: false, error: ...}): sends the headers and
\* the body and ends the response.
JsonResponse(code, kind) ==
    [status |-> code, headersSent |-> TRUE, ended |-> TRUE, body |-> kind]

\* res.writeHead(200, {'Content-Type': 'text/event-stream', ...})
StreamHead == [status |-> 200, headersSent |-> TRUE, ended |-> FALSE, body |-> "event-stream"]

\* One entry of a trace.  `current` is the 1-based position of the contact.
Entry(t, cur, tot, s, f, c, rs, d) ==
    [type |-> t, current |-> cur, total |-> tot, successful |-> s, failed |-> f,
     contact |-> c.name, email |-> c.email, company |-> c.company, results |-> rs, ms |-> d,
     session |-> 0]

NoContact == [name |-> "", email |-> << >>, company |-> ""]

\* Events written to the response (res.write).
ConnectedEvent == Entry("connected", 0, N, 0, 0, NoContact, << >>, 0)
\* Mutant: the progress event carries the 0-based loop index.
ProgressEventZeroBased(k, s, f) == Entry("progress", k, N, s, f, ContactAt(k), << >>, 0)

ProgressEvent(k, s, f) == Entry("progress", k + 1, N, s, f, ContactAt(k), << >>, 0)
ErrorEvent(k) == Entry("error", k + 1, N, 0, 0, ContactAt(k), << >>, 0)
CompleteEvent(s, f, rs) == Entry("complete", 0, N, s, f, NoContact, rs, 0)
FatalErrorEvent == Entry("fatal_error", 0, 0, 0, 0, NoContact, << >>, 0)

\* Calls of the transport, their settlements, and timers.  Transport objects
\* are numbered in the order in which the campaign creates them; `session` is
\* the number of the object created or called, 0 in every other entry.
OnSession(e, sid) == [e EXCEPT !.session = sid]

\* const transporter = createTransporter(gmail_email, gmail_password)
\* (server.js:313); nodemailer.createTransport(smtpConfig) (emailservice.js:33).
Created(sid) == OnSession(Entry("createTransport", 0, 0, 0, 0, NoContact, << >>, 0), sid)

\* await transporter.verify()   (server.js:314)
VerifyCall == OnSession(Entry("verify", 0, 0, 0, 0, NoContact, << >>, 0), 1)
VerifySettled(ok) ==
    Entry(IF ok THEN "verify_ok" ELSE "verify_err", 0, 0, 0, 0, NoContact, << >>, 0)
\* await transporter.sendMail(mailOptions) on the transporter of line 313
\* (server.js:369).
Call(k, c) == OnSession(Entry("sendMail", k + 1, 0, 0, 0, c, << >>, 0), 1)
Settled(k, c, ok) == Entry(IF ok THEN "send_ok" ELSE "send_err", k + 1, 0, 0, 0, c, << >>, 0)
Timer(k, d) == Entry("wait", k + 1, 0, 0, 0, NoContact, << >>, d)

\* The record pushed to results for contacts[k].
ResultRecord(k, st) ==
    [contact |-> ContactAt(k).name, email |-> ContactAt(k).email,
     company |-> ContactAt(k).company, status |-> st]

\* Whether the transport resolves the send for the k-th contact (1-based):
\* the recorded behaviour when the other mode already sent to that contact,
\* either outcome otherwise.
TransportOutcomes(k) == IF k <= Len(delivery) THEN { delivery[k] } ELSE BOOLEAN
Recorded(k, ok) == IF k <= Len(delivery) THEN delivery ELSE Append(delivery, ok)

\* Mutant: the timer is started after every contact, the last included.
DelayAfterEvery(k, n) == k < n

\* if (i < contacts.length - 1)   (server.js:407)
DelayNeeded(k, n) == k < n - 1

\* Mutant: sendMail is not awaited, so the send for the next contact is
\* started while this one is in flight.
AttemptNotAwaited(k, s, f) ==
    << ProgressEvent(k, s, f), Call(k, ContactAt(k)) >>
    \o (IF k + 1 < N THEN << ProgressEvent(k + 1, s, f), Call(k + 1, ContactAt(k + 1)) >>
        ELSE << >>)

\* Lines 345-369: the progress event for contacts[k] is written, then
\* sendMail is called.
Attempt(k, s, f) == << ProgressEvent(k, s, f), Call(k, ContactAt(k)) >>

\* Mutant: the loop is left as soon as two sends have failed.
LoopHeadGivesUp(k, tr, s, f, rs, r) ==
    /\ i' = k
    /\ IF k < N /\ f < 2
         THEN /\ trace' = tr \o Attempt(k, s, f)
              /\ pc' = "sending"
              /\ res' = r
         ELSE /\ trace' = tr \o << CompleteEvent(s, f, rs) >>
              /\ pc' = "done"
              /\ res' = [r EXCEPT !.ended = TRUE]

\* The head of the loop with index k: `for (...; i < contacts.length; ...)`
\* either attempts contacts[k] or leaves the loop, writes `complete` and ends
\* the response (lines 338-369, 412-424).  tr, s, f, rs, r are the trace, the
\* counters, the results and the response so far.
LoopHead(k, tr, s, f, rs, r) ==
    /\ i' = k
    /\ IF k < N
         THEN /\ trace' = tr \o Attempt(k, s, f)
              /\ pc' = "sending"
              /\ res' = r
         ELSE /\ trace' = tr \o << CompleteEvent(s, f, rs) >>
              /\ pc' = "done"
              /\ res' = [r EXCEPT !.ended = TRUE]

\* Lines 261-314: the request is validated; a rejected request is answered
\* 400, a TypeError is caught by the outer catch and answered 500 (no header
\* was sent yet); a valid request creates the transporter and calls verify().
Receive ==
    /\ pc = "start"
    /\ LET v == Validate(req, envMaxEmails) IN
         CASE v = "ok" ->
                /\ pc' = "verifying"
                /\ trace' = trace \o << Created(1), VerifyCall >>
                /\ res' = res
           [] v = "throw" ->
                /\ pc' = "done"
                /\ res' = JsonResponse(500, "server_error")
                /\ trace' = trace
           [] OTHER ->
                /\ pc' = "done"
                /\ res' = JsonResponse(400, v)
                /\ trace' = trace
    /\ UNCHANGED callerVars
    /\ UNCHANGED << delivery, i, successful, failed, results >>
    /\ UNCHANGED bufferedVars

\* Lines 314-369, verify() resolved: the stream is opened, `connected` is
\* written and the loop entered.
VerifyOk ==
    /\ pc = "verifying"
    /\ successful' = 0
    /\ failed' = 0
    /\ results' = << >>
    /\ LoopHead(0, trace \o << VerifySettled(TRUE), ConnectedEvent >>, 0, 0, << >>, StreamHead)
    /\ UNCHANGED callerVars
    /\ UNCHANGED << delivery >>
    /\ UNCHANGED bufferedVars

\* Mutant: verify() is not awaited, its rejection goes unnoticed and the
\* campaign starts.
VerifyFailContinues ==
    /\ pc = "verifying"
    /\ successful' = 0
    /\ failed' = 0
    /\ results' = << >>
    /\ LoopHead(0, trace \o << VerifySettled(FALSE), ConnectedEvent >>, 0, 0, << >>, StreamHead)
    /\ UNCHANGED callerVars
    /\ UNCHANGED << delivery >>
    /\ UNCHANGED bufferedVars

\* Lines 314, 426-434, verify() rejected: the outer catch answers 500, the
\* headers not being sent yet.
VerifyFail ==
    /\ pc = "verifying"
    /\ trace' = Append(trace, VerifySettled(FALSE))
    /\ res' = JsonResponse(500, "server_error")
    /\ pc' = "done"
    /\ UNCHANGED callerVars
    /\ UNCHANGED << delivery, i, successful, failed, results >>
    /\ UNCHANGED bufferedVars

\* The counters, the results and the events written after sendMail for
\* contacts[i] settled (lines 370-404).
SuccessfulAfter(ok) == IF ok THEN successful + 1 ELSE successful
\* Mutant: the catch block forgets failed++.
FailedAfterForgotten(ok) == failed

FailedAfter(ok) == IF ok THEN failed ELSE failed + 1
ResultsAfter(ok) == Append(results, ResultRecord(i, IF ok THEN "success" ELSE "failed"))
\* Mutant: the catch block writes no `error` event.
OutcomeSilent(ok) == << Settled(i, ContactAt(i), ok) >>

Outcome(ok) ==
    IF ok THEN << Settled(i, ContactAt(i), TRUE) >>
    ELSE << Settled(i, ContactAt(i), FALSE), ErrorEvent(i) >>

\* Mutant: no try/catch around the send, so a rejected sendMail reaches the
\* outer catch, which writes `fatal_error` and ends the response.
SendDoneAbortsOnFailure ==
    /\ pc = "sending"
    /\ \E ok \in TransportOutcomes(i + 1) :
         /\ delivery' = Recorded(i + 1, ok)
         /\ IF ok
              THEN /\ successful' = SuccessfulAfter(ok)
                   /\ failed' = FailedAfter(ok)
                   /\ results' = ResultsAfter(ok)
                   /\ IF DelayNeeded(i, N)
                        THEN /\ trace' = trace \o Outcome(ok) \o << Timer(i, StreamDelayMs) >>
                             /\ pc' = "waiting"
                             /\ res' = res
                             /\ i' = i
                        ELSE LoopHead(i + 1, trace \o Outcome(ok),
                                      SuccessfulAfter(ok), FailedAfter(ok), ResultsAfter(ok), res)
              ELSE /\ trace' = trace \o << Settled(i, ContactAt(i), FALSE), FatalErrorEvent >>
                   /\ pc' = "done"
                   /\ res' = [res EXCEPT !.ended = TRUE]
                   /\ UNCHANGED << successful, failed, results, i >>
    /\ UNCHANGED callerVars
    /\ UNCHANGED bufferedVars

\* Lines 369-424, sendMail for contacts[i] settled: the outcome is counted
\* and recorded, then either the inter-send timer is started or `complete`
\* is written and the response ended.
SendDone ==
    /\ pc = "sending"
    /\ \E ok \in TransportOutcomes(i + 1) :
         /\ delivery' = Recorded(i + 1, ok)
         /\ successful' = SuccessfulAfter(ok)
         /\ failed' = FailedAfter(ok)
         /\ results' = ResultsAfter(ok)
         /\ IF DelayNeeded(i, N)
              THEN /\ trace' = trace \o Outcome(ok) \o << Timer(i, StreamDelayMs) >>
                   /\ pc' = "waiting"
                   /\ res' = res
                   /\ i' = i
              ELSE LoopHead(i + 1, trace \o Outcome(ok),
                            SuccessfulAfter(ok), FailedAfter(ok), ResultsAfter(ok), res)
    /\ UNCHANGED callerVars
    /\ UNCHANGED bufferedVars

\* Lines 408, 338-369, the timer fired: the loop moves to the next contact.
WaitDone ==
    /\ pc = "waiting"
    /\ LoopHead(i + 1, trace, successful, failed, results, res)
    /\ UNCHANGED callerVars
    /\ UNCHANGED << delivery, successful, failed, results >>
    /\ UNCHANGED bufferedVars

\* A second request to the same route.  Node runs one handler at a time and
\* switches between them at their awaits; the local variables of a handler
\* (server.js:259, 313, 326-328, 338) belong to its invocation.  The model
\* keeps the state of the running handler in req, delivery and streamVars
\* and the state of the suspended one in `other`.
Campaign(r, d, p, k, s, f, rs, rsp, tr) ==
    [req |-> r, delivery |-> d, pc |-> p, i |-> k, successful |-> s, failed |-> f,
     results |-> rs, res |-> rsp, trace |-> tr]

\* A request that was just received.
Arrived(r) == Campaign(r, << >>, "start", 0, 0, 0, << >>, NoResponse, << >>)

\* No second request.
NoCampaign ==
    Arrived([gmail_email |-> "", gmail_password |-> "",
             contacts |-> [kind |-> "absent", items |-> << >>]])

\* Mutant: successful and failed are declared at module level, one pair for
\* all requests.
SwitchSharedCounters ==
    /\ other' = Campaign(req, delivery, pc, i, other.successful, other.failed, results, res, trace)
    /\ req' = other.req
    /\ delivery' = other.delivery
    /\ pc' = other.pc
    /\ i' = other.i
    /\ successful' = successful
    /\ failed' = failed
    /\ results' = other.results
    /\ res' = other.res
    /\ trace' = other.trace
    /\ UNCHANGED << envMaxEmails, rows, configFile, uploads, pcR >>
    /\ UNCHANGED << renderVars, edgeVars >>
    /\ UNCHANGED bufferedVars

\* The running handler is suspended at its await (or is over) and the
\* handler of the other request runs next.
Switch ==
    /\ other' = Campaign(req, delivery, pc, i, successful, failed, results, res, trace)
    /\ req' = other.req
    /\ delivery' = other.delivery
    /\ pc' = other.pc
    /\ i' = other.i
    /\ successful' = other.successful
    /\ failed' = other.failed
    /\ results' = other.results
    /\ res' = other.res
    /\ trace' = other.trace
    /\ UNCHANGED << envMaxEmails, rows, configFile, uploads, pcR >>
    /\ UNCHANGED << renderVars, edgeVars >>
    /\ UNCHANGED bufferedVars

\* An exception on its way to the outer catch.
Thrown == Entry("throw", 0, 0, 0, 0, NoContact, << >>, 0)

\* Mutant: the outer catch answers with a status and a JSON body whether or
\* not the stream was opened.
OuterCatchAlwaysJson(r, tr) == [res |-> JsonResponse(500, "server_error"), trace |-> tr]

\* Mutant: with the stream open the outer catch writes `fatal_error` and
\* leaves the response open.
OuterCatchNoEnd(r, tr) ==
    IF ~r.headersSent
      THEN [res |-> JsonResponse(500, "server_error"), trace |-> tr]
      ELSE [res |-> r, trace |-> Append(tr, FatalErrorEvent)]

\* Lines 426-443, the outer catch: with no header sent yet it answers 500
\* with a JSON body; otherwise it writes `fatal_error` and ends the response.
OuterCatch(r, tr) ==
    IF ~r.headersSent
      THEN [res |-> JsonResponse(500, "server_error"), trace |-> tr]
      ELSE [res |-> [r EXCEPT !.ended = TRUE], trace |-> Append(tr, FatalErrorEvent)]

\* Lines 406-443: an exception raised in the loop outside the per-contact
\* try, while the handler is between two contacts.  Nothing in the handler
\* raises one by itself there; the action stands for the unexpected error the
\* second branch of the outer catch is written for.
Fault ==
    /\ pc = "waiting"
    /\ res' = OuterCatch(res, Append(trace, Thrown)).res
    /\ trace' = OuterCatch(res, Append(trace, Thrown)).trace
    /\ pc' = "done"
    /\ UNCHANGED callerVars
    /\ UNCHANGED << delivery, i, successful, failed, results >>
    /\ UNCHANGED bufferedVars

-----------------------------------------------------------------------------
(* emailservice.js: loadConfig *)

\* Texts are sequences of one-character strings.
HrNameToken == << "{", "h", "r", "_", "n", "a", "m", "e", "}" >>
CompanyToken == << "{", "c", "o", "m", "p", "a", "n", "y", "}" >>
SenderNameToken == << "{", "s", "e", "n", "d", "e", "r", "_", "n", "a", "m", "e", "}" >>
SenderEmailToken ==
    << "{", "s", "e", "n", "d", "e", "r", "_", "e", "m", "a", "i", "l", "}" >>

\* "Internship Application - {company}"   (emailservice.js:15)
DefaultSubject ==
    << "I", "n", "t", "e", "r", "n", "s", "h", "i", "p", " ",
       "A", "p", "p", "l", "i", "c", "a", "t", "i", "o", "n", " ", "-", " " >> \o CompanyToken

\* "Dear {hr_name},\n\nI am interested in {company}."   (emailservice.js:16)
DefaultBody ==
    << "D", "e", "a", "r", " " >> \o HrNameToken
    \o << ",", "\n", "\n", "I", " ", "a", "m", " ",
          "i", "n", "t", "e", "r", "e", "s", "t", "e", "d", " ", "i", "n", " " >>
    \o CompanyToken \o << "." >>

\* "Anonymous"   (emailservice.js:17)
DefaultSenderName == << "A", "n", "o", "n", "y", "m", "o", "u", "s" >>

IsSpace(ch) == ch \in { " ", "\n", "\t" }

\* String.prototype.trim
RECURSIVE TrimStart(_)
TrimStart(s) == IF Len(s) > 0 /\ IsSpace(s[1]) THEN TrimStart(Tail(s)) ELSE s
RECURSIVE TrimEnd(_)
TrimEnd(s) ==
    IF Len(s) > 0 /\ IsSpace(s[Len(s)]) THEN TrimEnd(SubSeq(s, 1, Len(s) - 1)) ELSE s
Trim(s) == TrimEnd(TrimStart(s))

\* The file at configPath as the four patterns of loadConfig see it.  Each
\* field holds no element when the file has no such heading or label, and
\* otherwise the text that follows it: the content of the fenced block for
\* subject and body, the rest of the line for senderLine and delayLine.  A
\* heading that is not followed by a fenced block counts as no heading.
ConfigContent(sub, bod, sl, dl) ==
    [exists |-> TRUE, subject |-> sub, body |-> bod, senderLine |-> sl, delayLine |-> dl]

\* No file at configPath.
NoConfigFile ==
    [exists |-> FALSE, subject |-> << >>, body |-> << >>, senderLine |-> << >>,
     delayLine |-> << >>]

\* The configuration of the repository's sample (test_server.js:197-227),
\* with the body shortened: {company} twice, trailing blanks after the sender
\* name, "3 seconds" as delay.
SampleSubject == << "\n", "A", "t", " " >> \o CompanyToken \o << "\n" >>
SampleBody ==
    << "\n", "D", "e", "a", "r", " " >> \o HrNameToken \o << ",", "\n", "a", "t", " " >>
    \o CompanyToken \o << ",", " ", "t", "o", " " >> \o CompanyToken
    \o << ",", "\n" >> \o SenderNameToken \o << "\n" >>
SampleConfig ==
    ConfigContent(<< SampleSubject >>, << SampleBody >>,
                  << << "A", "d", "a", "r", "s", "h", " ", " " >> >>,
                  << << "3", " ", "s", "e", "c", "o", "n", "d", "s" >> >>)

\* The configuration files the model enumerates.
ConfigFiles ==
    { NoConfigFile, SampleConfig }
    \cup { ConfigContent(sub, bod, sl, dl) :
             sub \in { << >>, << SampleSubject >> },
             bod \in { << >> },
             sl \in { << >>, << << >> >>, << << " ", " " >> >>, << << "M", "e", " " >> >> },
             dl \in { << >>, << << "0" >> >>, << << "1", "2" >> >>,
                      << << "-", "1" >> >>, << << "s", "o", "o", "n" >> >> } }

NoConfig == [loaded |-> FALSE, subjectTemplate |-> << >>, bodyTemplate |-> << >>,
             senderName |-> << >>, delay |-> 0]

\* loadConfig for a file that exists (emailservice.js:9-19).  `(.+)` needs
\* one character at least on the sender line; `(\d+)` takes the digits that
\* follow the delay label and does not match when the first character is no
\* digit.
loadConfig(f) ==
    [loaded |-> TRUE,
     subjectTemplate |-> IF f.subject /= << >> THEN Trim(f.subject[1]) ELSE DefaultSubject,
     bodyTemplate |-> IF f.body /= << >> THEN Trim(f.body[1]) ELSE DefaultBody,
     senderName |-> IF f.senderLine /= << >> /\ Len(f.senderLine[1]) > 0
                       /\ Trim(f.senderLine[1]) /= << >>
                      THEN Trim(f.senderLine[1]) ELSE DefaultSenderName,
     delay |-> IF f.delayLine /= << >> /\ parseInt(f.delayLine[1]) /= NaN
                 THEN parseInt(f.delayLine[1]) ELSE DefaultDelay]

-----------------------------------------------------------------------------
(* emailservice.js: personalize *)

\* The characters U+0060 and U+0027.
Backtick == "backtick"
Apostrophe == "apostrophe"

\* s.indexOf(pat), 1-based; 0 when pat does not occur in s.
Occurs(s, pat, p) == p + Len(pat) - 1 <= Len(s) /\ SubSeq(s, p, p + Len(pat) - 1) = pat
IndexOf(s, pat) ==
    IF \E p \in 1..Len(s) : Occurs(s, pat, p)
      THEN CHOOSE p \in 1..Len(s) : Occurs(s, pat, p) /\ \A q \in 1..(p - 1) : ~Occurs(s, pat, q)
      ELSE 0

\* The text String.prototype.replace inserts for the replacement string r
\* from index k on: "$$" stands for "$", "$&" for the matched text, "$" with
\* a backtick or an apostrophe for the text before or after the match; a "$"
\* before anything else (a string pattern has no capture group) stands for
\* itself.
RECURSIVE GetSubstitution(_, _, _, _, _)
GetSubstitution(r, k, matched, before, after) ==
    IF k > Len(r) THEN << >>
    ELSE IF r[k] = "$" /\ k < Len(r) /\ r[k + 1] \in { "$", "&", Backtick, Apostrophe }
      THEN (CASE r[k + 1] = "$" -> << "$" >>
              [] r[k + 1] = "&" -> matched
              [] r[k + 1] = Backtick -> before
              [] OTHER -> after)
           \o GetSubstitution(r, k + 2, matched, before, after)
    ELSE << r[k] >> \o GetSubstitution(r, k + 1, matched, before, after)

\* s.replace(pat, r) with a string pattern: the first occurrence only.
replace(s, pat, r) ==
    LET p == IndexOf(s, pat) IN
      IF p = 0 THEN s
      ELSE LET before == SubSeq(s, 1, p - 1)
               after == SubSeq(s, p + Len(pat), Len(s))
           IN before \o GetSubstitution(r, 1, pat, before, after) \o after

\* Lines 23-29: four replace calls, each on the result of the one before.
personalize(tpl, v) ==
    replace(replace(replace(replace(tpl, HrNameToken, v.hr_name),
                            CompanyToken, v.company),
                    SenderNameToken, v.sender_name),
            SenderEmailToken, v.sender_email)

\* Templates handed to personalize: the example of the specification, the
\* defaults and the sample of the repository, and texts with an unknown
\* placeholder, a repeated placeholder, all four, none, and three in the
\* reverse of the order of replacement.
TplExample ==
    << "D", "e", "a", "r", " " >> \o HrNameToken \o << ",", " ", "r", "e", " " >>
    \o CompanyToken \o << "." >>
TplFoo == << "{", "f", "o", "o", "}", " " >> \o HrNameToken
TplTwice == CompanyToken \o << "/" >> \o CompanyToken
TplAll ==
    HrNameToken \o << " " >> \o CompanyToken \o << " " >> \o SenderNameToken
    \o << " " >> \o SenderEmailToken
TplPlain == << "H", "i" >>
TplReverse == SenderEmailToken \o CompanyToken \o HrNameToken
Templates ==
    { TplExample, TplFoo, TplTwice, TplAll, TplPlain, TplReverse,
      DefaultSubject, DefaultBody, Trim(SampleBody) }

\* Values of the variables: plain names, a company name with "$$" in it, and
\* values that read like a placeholder or like a replacement pattern.
NameSam == << "S", "a", "m" >>
NameAcme == << "A", "c", "m", "e" >>
Values ==
    [ hr_name : { NameSam, CompanyToken, << "$", "&" >> },
      company : { NameAcme, << "A", "$", "$" >>, HrNameToken, << "$", Apostrophe >> },
      sender_name : { << "M", "e" >> },
      sender_email : { AddrSam } ]

NoValues == [hr_name |-> << >>, company |-> << >>, sender_name |-> << >>,
             sender_email |-> << >>]

\* No call of personalize under way.
RenderOff == template = << >> /\ values = NoValues /\ rendered = << >> /\ pcP = "off"

\* One call of personalize.
Personalize ==
    /\ pcP = "call"
    /\ rendered' = personalize(template, values)
    /\ pcP' = "done"
    /\ UNCHANGED << template, values >>
    /\ UNCHANGED << req, envMaxEmails, rows, configFile, uploads, pcR, delivery, other, edgeVars >>
    /\ UNCHANGED streamVars
    /\ UNCHANGED bufferedVars

-----------------------------------------------------------------------------
(* emailservice.js: sendEmails *)

NoResult == [returned |-> FALSE, total |-> 0, success |-> 0, fail |-> 0, failedEmails |-> << >>]

\* Mutant: total counts the delivered messages only.
ReturnedTotalDelivered(s, f, fe) ==
    [returned |-> TRUE, total |-> s, success |-> s, fail |-> f, failedEmails |-> fe]

\* return { total: contacts.length, success, fail, failedEmails };
Returned(s, f, fe) ==
    [returned |-> TRUE, total |-> Len(rows), success |-> s, fail |-> f, failedEmails |-> fe]

\* if (i < contacts.length - 1)   (emailservice.js:95)
DelayNeededB(k, n) == k < n - 1

SuccessAfterB(ok) == IF ok THEN success + 1 ELSE success
FailAfterB(ok) == IF ok THEN fail ELSE fail + 1
\* Mutant: the address of a failed contact is put in front of the list.
FailedEmailsAfterBUnshift(ok) ==
    IF ok THEN failedEmails ELSE << rows[iB + 1].email >> \o failedEmails

FailedEmailsAfterB(ok) == IF ok THEN failedEmails ELSE Append(failedEmails, rows[iB + 1].email)

\* sendEmail (emailservice.js:32-45) for contacts[k]: a transport of its own
\* is created, the (k+1)-th of the campaign, and sendMail called on it.
sendEmail(k, c) == << Created(k + 1), OnSession(Call(k, c), k + 1) >>

\* The head of the loop with index k: `for (...; i < contacts.length; ...)`
\* either sends to contacts[k] or leaves the loop and returns the result
\* (lines 70-87, 100).
LoopHeadB(k, tr, s, f, fe) ==
    /\ iB' = k
    /\ IF k < Len(rows)
         THEN /\ traceB' = tr \o sendEmail(k, rows[k + 1])
              /\ pcB' = "sending"
              /\ result' = result
         ELSE /\ traceB' = tr
              /\ pcB' = "done"
              /\ result' = Returned(s, f, fe)

\* Lines 48-87: the configuration and the CSV rows are read; with no row the
\* loop is skipped and the result returned, otherwise the first message is
\* personalised and sendEmail calls sendMail on a transport of its own.
\* fs.readFileSync throws when there is no file at configPath: sendEmails
\* then rejects before it read the contacts.
StartSendEmails ==
    /\ pcB = "idle"
    /\ IF configFile.exists
         THEN /\ config' = loadConfig(configFile)
              /\ success' = 0
              /\ fail' = 0
              /\ failedEmails' = << >>
              /\ LoopHeadB(0, traceB, 0, 0, << >>)
         ELSE /\ pcB' = "done"
              /\ UNCHANGED << config, success, fail, failedEmails, iB, result, traceB >>
    /\ UNCHANGED callerVars
    /\ UNCHANGED << delivery >>
    /\ UNCHANGED streamVars

\* Lines 87-100, sendMail for contacts[i] settled: success or fail is
\* counted, then either the inter-send timer is started or the result is
\* returned.
SendDoneB ==
    /\ pcB = "sending"
    /\ \E ok \in TransportOutcomes(iB + 1) :
         /\ delivery' = Recorded(iB + 1, ok)
         /\ success' = SuccessAfterB(ok)
         /\ fail' = FailAfterB(ok)
         /\ failedEmails' = FailedEmailsAfterB(ok)
         /\ IF DelayNeededB(iB, Len(rows))
              THEN /\ traceB' = traceB \o << Settled(iB, rows[iB + 1], ok),
                                            Timer(iB, config.delay * 1000) >>
                   /\ pcB' = "waiting"
                   /\ result' = result
                   /\ iB' = iB
              ELSE LoopHeadB(iB + 1, Append(traceB, Settled(iB, rows[iB + 1], ok)),
                             SuccessAfterB(ok), FailAfterB(ok), FailedEmailsAfterB(ok))
    /\ UNCHANGED callerVars
    /\ UNCHANGED << config >>
    /\ UNCHANGED streamVars

\* Lines 96, 70-87, the timer fired: the next message is personalised and sent.
WaitDoneB ==
    /\ pcB = "waiting"
    /\ LoopHeadB(iB + 1, traceB, success, fail, failedEmails)
    /\ UNCHANGED callerVars
    /\ UNCHANGED << delivery, success, fail, failedEmails, result, config >>
    /\ UNCHANGED streamVars

-----------------------------------------------------------------------------
(* The upload route that calls sendEmails.  The route itself is not part of
   the sources at hand (server.js only configures multer and imports
   sendEmails); it is written down here as the specification describes it. *)

\* The files of one multipart request: the contact list always, the template
\* file when there is one, the attachment when withResume.
OwnedFiles(withResume) ==
    { "contacts" }
    \cup (IF configFile.exists THEN { "config" } ELSE { })
    \cup (IF withResume THEN { "resume" } ELSE { })

\* multer stored the files of the request; the route calls sendEmails.
ReceiveUpload ==
    /\ pcR = "start"
    /\ \E withResume \in BOOLEAN : uploads' = OwnedFiles(withResume)
    /\ pcR' = "running"
    /\ pcB' = "idle"
    /\ UNCHANGED << req, envMaxEmails, rows, configFile, delivery >>
    /\ UNCHANGED << renderVars, other, edgeVars >>
    /\ UNCHANGED << iB, success, fail, failedEmails, result, traceB, config >>
    /\ UNCHANGED streamVars

\* Mutant: the files are deleted on the success path only.
CleanupOnSuccessOnly == IF result.returned THEN { } ELSE uploads

\* What is left of the campaign's files once the route deleted them.
Cleanup == { }

\* sendEmails settled (it resolved with the result or rejected): the route
\* deletes the files of the campaign and answers.
Respond ==
    /\ pcR = "running"
    /\ pcB = "done"
    /\ uploads' = Cleanup
    /\ pcR' = "responded"
    /\ UNCHANGED << req, envMaxEmails, rows, configFile, delivery >>
    /\ UNCHANGED << renderVars, other, edgeVars >>
    /\ UNCHANGED bufferedVars
    /\ UNCHANGED streamVars

-----------------------------------------------------------------------------
(* server.js: authenticateApiKey and POST /api/test-connection *)

\* The protected routes: both are mounted behind authenticateApiKey
\* (server.js:201, 257).
Routes == { "send-emails", "test-connection" }

KeyOne == << "k", "1" >>
KeyTwo == << "k", "2" >>
\* A prefix of a key, and the text of a whole list of keys.
KeyPrefix == << "k" >>
KeyList == << "k", "1", ",", "k", "2" >>
KeyInputs == { << >>, KeyOne, KeyTwo, KeyPrefix, KeyList }

\* Values of API_KEYS: unset, one key, two keys, two keys with a space after
\* the comma.
EnvApiKeysInputs ==
    { << >>, KeyOne, KeyList, << "k", "1", ",", " ", "k", "2" >> }

TestBodies == [ email : { << >>, AddrSam, AddrNoDot }, appPassword : { "", "pw" } ]
NoTestBody == [email |-> << >>, appPassword |-> ""]

\* String.prototype.split(','): the pieces between the commas, in order.
RECURSIVE split(_)
split(str) ==
    IF \E p \in 1..Len(str) : str[p] = ","
      THEN LET p == CHOOSE q \in 1..Len(str) :
                        str[q] = "," /\ \A r \in 1..(q - 1) : str[r] /= ","
           IN << SubSeq(str, 1, p - 1) >> \o split(SubSeq(str, p + 1, Len(str)))
      ELSE << str >>

\* Array.prototype.includes
includes(arr, x) == \E p \in 1..Len(arr) : arr[p] = x

\* const apiKey = req.headers['x-api-key'] || req.query.api_key   (server.js:12)
apiKeyOf(h, q) == IF h /= << >> THEN h ELSE q

\* process.env.API_KEYS ? process.env.API_KEYS.split(',') : []   (server.js:21)
validApiKeys(env) == IF env /= << >> THEN split(env) ELSE << >>

\* Mutant: with no key configured the middleware lets every keyed request
\* through.
authenticateApiKeyOpenWhenUnset(h, q, env) ==
    IF apiKeyOf(h, q) = << >> THEN "401"
    ELSE IF env /= << >> /\ ~includes(validApiKeys(env), apiKeyOf(h, q)) THEN "403"
    ELSE "next"

\* authenticateApiKey (server.js:11-32): 401 without a key, 403 with a key
\* that is not in the list, next() otherwise.
authenticateApiKey(h, q, env) ==
    IF apiKeyOf(h, q) = << >> THEN "401"
    ELSE IF ~includes(validApiKeys(env), apiKeyOf(h, q)) THEN "403"
    ELSE "next"

\* The request passes through the middleware: it is answered there, or the
\* handler of its route is entered.
Authenticate ==
    /\ pc = "gate"
    /\ LET a == authenticateApiKey(headerKey, queryKey, envApiKeys) IN
         CASE a = "401" ->
                /\ res' = JsonResponse(401, "api_key_required")
                /\ pc' = "done"
           [] a = "403" ->
                /\ res' = JsonResponse(403, "invalid_api_key")
                /\ pc' = "done"
           [] OTHER ->
                /\ res' = res
                /\ pc' = IF route = "send-emails" THEN "start" ELSE "test"
    /\ UNCHANGED callerVars
    /\ UNCHANGED << delivery, i, successful, failed, results, trace >>
    /\ UNCHANGED bufferedVars

\* POST /api/test-connection, lines 202-226: the body is validated, then a
\* transport is created and its verification awaited.
TestConnection ==
    /\ pc = "test"
    /\ IF testBody.email = << >> \/ testBody.appPassword = ""
         THEN /\ res' = JsonResponse(400, "credentials_required")
              /\ trace' = trace
              /\ pc' = "done"
         ELSE IF ~isValidEmail(testBody.email)
         THEN /\ res' = JsonResponse(400, "invalid_email")
              /\ trace' = trace
              /\ pc' = "done"
         ELSE /\ res' = res
              /\ trace' = trace \o << Created(1), VerifyCall >>
              /\ pc' = "testVerifying"
    /\ UNCHANGED callerVars
    /\ UNCHANGED << delivery, i, successful, failed, results >>
    /\ UNCHANGED bufferedVars

\* Lines 228-234: verify resolved, the route answers 200 with success.
TestVerifyOk ==
    /\ pc = "testVerifying"
    /\ trace' = Append(trace, VerifySettled(TRUE))
    /\ res' = JsonResponse(200, "connection_ok")
    /\ pc' = "done"
    /\ UNCHANGED callerVars
    /\ UNCHANGED << delivery, i, successful, failed, results >>
    /\ UNCHANGED bufferedVars

\* Lines 236-253: verify rejected, the catch answers 400.
TestVerifyFail ==
    /\ pc = "testVerifying"
    /\ trace' = Append(trace, VerifySettled(FALSE))
    /\ res' = JsonResponse(400, "connection_failed")
    /\ pc' = "done"
    /\ UNCHANGED callerVars
    /\ UNCHANGED << delivery, i, successful, failed, results >>
    /\ UNCHANGED bufferedVars

\* Bounds of the upload storage: the instants of the clock, and the files one
\* request uploads.
FirstInstant == 9
MaxInstant == 11
MaxUploads == 2

\* Two requests that upload files, and the original names of their files.
Uploaders == { 1, 2 }
OriginalNames == { << "c", "v" >>, << "1", "-", "c", "v" >> }

DigitChar(d) == << "0", "1", "2", "3", "4", "5", "6", "7", "8", "9" >>[d + 1]

\* The decimal text of a natural number, as a template literal renders it.
RECURSIVE toString(_)
toString(n) == IF n < 10 THEN << DigitChar(n) >> ELSE toString(n \div 10) \o << DigitChar(n % 10) >>

\* const uniqueName = `${Date.now()}-${file.originalname}`   (server.js:75)
uniqueName(ts, originalname) == toString(ts) \o << "-" >> \o originalname

\* The upload directory after a file of request r is written under name:
\* a file of that name is replaced.
Written(dir, name, r) ==
    { f \in dir : f.filename /= name } \cup { [filename |-> name, owner |-> r] }

\* The uploads of request r so far.
UploadsOf(r) == { p \in 1..Len(received) : received[p].request = r }

\* multer stores one file of request r whose original name is orig
\* (server.js:67-77): destination uploads/, filename uniqueName.
StoreFile(r, orig) ==
    /\ Cardinality(UploadsOf(r)) < MaxUploads
    /\ stored' = Written(stored, uniqueName(now, orig), r)
    /\ received' = Append(received, [request |-> r, originalname |-> orig,
                                      filename |-> uniqueName(now, orig)])
    /\ now' = now

\* A millisecond passes.
Tick ==
    /\ now < MaxInstant
    /\ now' = now + 1
    /\ UNCHANGED << stored, received >>

\* No upload is in the picture.
NothingStored == now = FirstInstant /\ stored = { } /\ received = << >>

\* The client still holds the connection.
Connected == sinkClosedAt = -1

\* The client closes the connection while the handler is suspended at an
\* await.  No listener is registered for it (server.js:257-444): the handler
\* goes on, and what it writes from here on is dropped without an exception.
ClientCloses ==
    /\ pc \in { "verifying", "sending", "waiting" }
    /\ Connected
    /\ sinkClosedAt' = Len(trace)
    /\ UNCHANGED << req, envMaxEmails, rows, configFile, uploads, pcR, renderVars, other >>
    /\ UNCHANGED << route, headerKey, queryKey, envApiKeys, testBody, storageVars >>
    /\ UNCHANGED << delivery >>
    /\ UNCHANGED streamVars
    /\ UNCHANGED bufferedVars

\* A request to POST /api/send-emails that the middleware has let through
\* with the one configured key.
Authenticated ==
    /\ route = "send-emails"
    /\ headerKey = KeyOne
    /\ queryKey = << >>
    /\ envApiKeys = KeyOne
    /\ testBody = NoTestBody

-----------------------------------------------------------------------------
(* Specification *)

\* The two entry points are exercised separately (any request body; an empty
\* CSV file) or on one and the same contact list.
Init ==
    /\ envMaxEmails \in EnvValues
    /\ \/ /\ req \in Requests
          /\ rows = << >>
       \/ /\ rows \in SeqsUpTo(CsvRows, MaxLen) \ { << >> }
          /\ req = [gmail_email |-> "me", gmail_password |-> "pw",
                    contacts |-> [kind |-> "list", items |-> rows]]
    /\ delivery = << >>
    /\ pc = "start"
    /\ i = 0
    /\ successful = 0
    /\ failed = 0
    /\ results = << >>
    /\ res = NoResponse
    /\ trace = << >>
    /\ pcB = "idle"
    /\ iB = 0
    /\ success = 0
    /\ fail = 0
    /\ failedEmails = << >>
    /\ result = NoResult
    /\ traceB = << >>
    /\ configFile = SampleConfig
    /\ config = NoConfig
    /\ uploads = { "contacts", "config" }
    /\ pcR = "none"
    /\ RenderOff
    /\ other = NoCampaign
    /\ Authenticated
    /\ Connected
    /\ NothingStored

Next ==
    \/ Receive
    \/ VerifyOk
    \/ VerifyFail
    \/ SendDone
    \/ WaitDone
    \/ StartSendEmails
    \/ SendDoneB
    \/ WaitDoneB

Spec == Init /\ [][Next]_vars

\* The program with a transport that settles every sendMail and timers that
\* fire: a handler waiting for either is resumed eventually.
SpecLive ==
    /\ Init
    /\ [][Next]_vars
    /\ WF_vars(SendDone)
    /\ WF_vars(WaitDone)
    /\ WF_vars(SendDoneB)
    /\ WF_vars(WaitDoneB)

\* A campaign in buffered mode, from the upload to the answer of the route:
\* any template file or none, any CSV file (the empty one included).
InitUpload ==
    /\ envMaxEmails = << >>
    /\ rows \in SeqsUpTo(CsvRows, MaxLen)
    /\ req = [gmail_email |-> "me", gmail_password |-> "pw",
              contacts |-> [kind |-> "list", items |-> rows]]
    /\ delivery = << >>
    /\ pc = "start"
    /\ i = 0
    /\ successful = 0
    /\ failed = 0
    /\ results = << >>
    /\ res = NoResponse
    /\ trace = << >>
    /\ pcB = "notcalled"
    /\ iB = 0
    /\ success = 0
    /\ fail = 0
    /\ failedEmails = << >>
    /\ result = NoResult
    /\ traceB = << >>
    /\ configFile \in ConfigFiles
    /\ config = NoConfig
    /\ uploads = { }
    /\ pcR = "start"
    /\ RenderOff
    /\ other = NoCampaign
    /\ Authenticated
    /\ Connected
    /\ NothingStored

NextUpload ==
    \/ ReceiveUpload
    \/ StartSendEmails
    \/ SendDoneB
    \/ WaitDoneB
    \/ Respond

SpecUpload == InitUpload /\ [][NextUpload]_vars

\* Longest contact list of the second of two concurrent requests.
OtherMaxLen == 2

\* The bodies of two concurrent requests: credentials and a list of
\* well-formed contacts each.
PairRequest(cs) ==
    [gmail_email |-> "me", gmail_password |-> "pw", contacts |-> [kind |-> "list", items |-> cs]]

\* Two requests to POST /api/send-emails are being handled at the same time.
InitPair ==
    /\ envMaxEmails \in EnvValues
    /\ rows = << >>
    /\ \E cs \in SeqsUpTo({ Sam, Ann }, MaxLen) \ { << >> } : req = PairRequest(cs)
    /\ \E cs \in SeqsUpTo({ Sam, Ann }, OtherMaxLen) \ { << >> } : other = Arrived(PairRequest(cs))
    /\ delivery = << >>
    /\ pc = "start"
    /\ i = 0
    /\ successful = 0
    /\ failed = 0
    /\ results = << >>
    /\ res = NoResponse
    /\ trace = << >>
    /\ pcB = "notcalled"
    /\ iB = 0
    /\ success = 0
    /\ fail = 0
    /\ failedEmails = << >>
    /\ result = NoResult
    /\ traceB = << >>
    /\ configFile = NoConfigFile
    /\ config = NoConfig
    /\ uploads = { }
    /\ pcR = "none"
    /\ RenderOff
    /\ Authenticated
    /\ Connected
    /\ NothingStored

NextPair ==
    \/ Receive
    \/ VerifyOk
    \/ VerifyFail
    \/ SendDone
    \/ WaitDone
    \/ Switch

SpecPair == InitPair /\ [][NextPair]_vars

\* personalize on its own, for every template and every values of the
\* variables enumerated.
InitRender ==
    /\ envMaxEmails = << >>
    /\ rows = << >>
    /\ req = [gmail_email |-> "", gmail_password |-> "",
              contacts |-> [kind |-> "absent", items |-> << >>]]
    /\ delivery = << >>
    /\ pc = "start"
    /\ i = 0
    /\ successful = 0
    /\ failed = 0
    /\ results = << >>
    /\ res = NoResponse
    /\ trace = << >>
    /\ pcB = "notcalled"
    /\ iB = 0
    /\ success = 0
    /\ fail = 0
    /\ failedEmails = << >>
    /\ result = NoResult
    /\ traceB = << >>
    /\ configFile = NoConfigFile
    /\ config = NoConfig
    /\ uploads = { }
    /\ pcR = "none"
    /\ template \in Templates
    /\ values \in Values
    /\ rendered = << >>
    /\ pcP = "call"
    /\ other = NoCampaign
    /\ Authenticated
    /\ Connected
    /\ NothingStored

NextRender == Personalize

SpecRender == InitRender /\ [][NextRender]_vars

\* The same program in an environment where an unexpected exception may be
\* raised between two contacts of a streamed campaign.
NextFault == Next \/ Fault

SpecFault == Init /\ [][NextFault]_vars

\* A request to a protected route arrives at the middleware: any key in the
\* header and in the query string, any value of API_KEYS.
InitAuth ==
    /\ route \in Routes
    /\ headerKey \in KeyInputs
    /\ queryKey \in KeyInputs
    /\ envApiKeys \in EnvApiKeysInputs
    /\ envMaxEmails = << >>
    /\ rows = << >>
    /\ \/ /\ route = "send-emails"
          /\ testBody = NoTestBody
          /\ \/ \E cs \in SeqsUpTo({ Sam, Ann }, OtherMaxLen) : req = PairRequest(cs)
             \/ req = [gmail_email |-> "", gmail_password |-> "pw",
                       contacts |-> [kind |-> "list", items |-> << Sam >>]]
       \/ /\ route = "test-connection"
          /\ testBody \in TestBodies
          /\ req = [gmail_email |-> "", gmail_password |-> "",
                    contacts |-> [kind |-> "absent", items |-> << >>]]
    /\ delivery = << >>
    /\ pc = "gate"
    /\ i = 0
    /\ successful = 0
    /\ failed = 0
    /\ results = << >>
    /\ res = NoResponse
    /\ trace = << >>
    /\ pcB = "notcalled"
    /\ iB = 0
    /\ success = 0
    /\ fail = 0
    /\ failedEmails = << >>
    /\ result = NoResult
    /\ traceB = << >>
    /\ configFile = NoConfigFile
    /\ config = NoConfig
    /\ uploads = { }
    /\ pcR = "none"
    /\ RenderOff
    /\ other = NoCampaign
    /\ Connected
    /\ NothingStored

NextAuth ==
    \/ Authenticate
    \/ Receive
    \/ VerifyOk
    \/ VerifyFail
    \/ SendDone
    \/ WaitDone
    \/ TestConnection
    \/ TestVerifyOk
    \/ TestVerifyFail

SpecAuth == InitAuth /\ [][NextAuth]_vars

\* The streamed route on its own, with a client that may close the
\* connection at any await and an exception that may be raised between two
\* contacts.
InitSink ==
    /\ envMaxEmails \in EnvValues
    /\ req \in Requests
    /\ rows = << >>
    /\ delivery = << >>
    /\ pc = "start"
    /\ i = 0
    /\ successful = 0
    /\ failed = 0
    /\ results = << >>
    /\ res = NoResponse
    /\ trace = << >>
    /\ pcB = "notcalled"
    /\ iB = 0
    /\ success = 0
    /\ fail = 0
    /\ failedEmails = << >>
    /\ result = NoResult
    /\ traceB = << >>
    /\ configFile = NoConfigFile
    /\ config = NoConfig
    /\ uploads = { }
    /\ pcR = "none"
    /\ RenderOff
    /\ other = NoCampaign
    /\ Authenticated
    /\ Connected
    /\ NothingStored

NextSink ==
    \/ Receive
    \/ VerifyOk
    \/ VerifyFail
    \/ SendDone
    \/ WaitDone
    \/ Fault
    \/ ClientCloses

SpecSink == InitSink /\ [][NextSink]_vars

\* Two requests upload files through the multer storage, in any interleaving
\* and at any instants.
InitStore ==
    /\ envMaxEmails = << >>
    /\ rows = << >>
    /\ req = [gmail_email |-> "", gmail_password |-> "",
              contacts |-> [kind |-> "absent", items |-> << >>]]
    /\ delivery = << >>
    /\ pc = "start"
    /\ i = 0
    /\ successful = 0
    /\ failed = 0
    /\ results = << >>
    /\ res = NoResponse
    /\ trace = << >>
    /\ pcB = "notcalled"
    /\ iB = 0
    /\ success = 0
    /\ fail = 0
    /\ failedEmails = << >>
    /\ result = NoResult
    /\ traceB = << >>
    /\ configFile = NoConfigFile
    /\ config = NoConfig
    /\ uploads = { }
    /\ pcR = "none"
    /\ RenderOff
    /\ other = NoCampaign
    /\ Authenticated
    /\ Connected
    /\ NothingStored

NextStore ==
    \/ /\ \E r \in Uploaders : \E orig \in OriginalNames : StoreFile(r, orig)
       /\ UNCHANGED << req, envMaxEmails, rows, configFile, uploads, pcR, renderVars, other >>
       /\ UNCHANGED << route, headerKey, queryKey, envApiKeys, testBody, sinkClosedAt >>
       /\ UNCHANGED << delivery >>
       /\ UNCHANGED streamVars
       /\ UNCHANGED bufferedVars
    \/ /\ Tick
       /\ UNCHANGED << req, envMaxEmails, rows, configFile, uploads, pcR, renderVars, other >>
       /\ UNCHANGED << route, headerKey, queryKey, envApiKeys, testBody, sinkClosedAt >>
       /\ UNCHANGED << delivery >>
       /\ UNCHANGED streamVars
       /\ UNCHANGED bufferedVars

SpecStore == InitStore /\ [][NextStore]_vars

TypeOK ==
    /\ pc \in { "gate", "start", "verifying", "sending", "waiting", "done",
               "test", "testVerifying" }
    /\ pcB \in { "notcalled", "idle", "sending", "waiting", "done" }
    /\ pcR \in { "none", "start", "running", "responded" }
    /\ uploads \subseteq { "contacts", "config", "resume" }
    /\ config.delay >= 0
    /\ Len(delivery) <= MaxLen

-----------------------------------------------------------------------------
(* Views of the state used by the properties *)

EventTypes == { "connected", "progress", "error", "complete", "fatal_error" }
IsEvent(e) == e.type \in EventTypes

\* The events written to the response, in order.
events == SelectSeq(trace, IsEvent)

\* The positions of a trace that hold an entry of type t.
Positions(tr, t) == { p \in 1..Len(tr) : tr[p].type = t }
Count(tr, t) == Cardinality(Positions(tr, t))

\* The positions at which a sendMail call settled, either way.
SettledPositions(tr) == Positions(tr, "send_ok") \cup Positions(tr, "send_err")

Items == req.contacts.items

WellFormed(c) ==
    /\ ~c.isNull
    /\ c.name /= ""
    /\ c.email /= << >>
    /\ c.company /= ""
    /\ isValidEmail(c.email)

HasCredentials == req.gmail_email /= "" /\ req.gmail_password /= ""

\* A request that names credentials and a non-empty list of well-formed
\* contacts no longer than the configured maximum.
ValidRequest ==
    /\ HasCredentials
    /\ req.contacts.kind = "list"
    /\ N >= 1
    /\ N <= maxEmails(envMaxEmails)
    /\ \A k \in 1..N : WellFormed(Items[k])

Verified == Count(trace, "verify_ok") > 0

\* The streamed campaign ran to its end.
StreamCompleted == pc = "done" /\ res.status = 200

LastEvent == events[Len(events)]

-----------------------------------------------------------------------------
(* Properties *)

\* C1: for every valid contact list of size N and a transport whose
\* verification succeeds, whatever the mix of per-contact outcomes, the
\* reported result (the `complete` event; the value sendEmails returns) has
\* total = N and success + fail = N, and the outcome sequence of the
\* `complete` event has exactly N records, the k-th belonging to the k-th
\* input contact.  A valid request is never answered by a rejection.
C1_AggregateResult ==
    /\ (ValidRequest /\ pc = "done") =>
          \/ res.status = 500 /\ Count(trace, "verify_err") = 1
          \/ /\ Verified
             /\ res.status = 200
             /\ Len(events) > 0
             /\ LastEvent.type = "complete"
             /\ LastEvent.total = N
             /\ LastEvent.successful + LastEvent.failed = N
             /\ Len(LastEvent.results) = N
             /\ \A k \in 1..N :
                    /\ LastEvent.results[k].contact = Items[k].name
                    /\ LastEvent.results[k].email = Items[k].email
                    /\ LastEvent.results[k].company = Items[k].company
    /\ (ValidRequest /\ Verified) =>
          /\ successful + failed = Len(results)
          /\ Len(results) <= N
    /\ pcB = "done" =>
          /\ result.returned
          /\ result.total = Len(rows)
          /\ result.success + result.fail = Len(rows)

\* C1 witness: a campaign over three contacts, not all alike, completed in
\* both modes with one success and two failures.
C1_Witness ==
    /\ StreamCompleted
    /\ pcB = "done"
    /\ N = 3
    /\ Items[1] /= Items[2]
    /\ rows = Items
    /\ successful = 1
    /\ failed = 2

\* C2: a delivery failure never aborts the loop.  Whenever the send for
\* contact k failed, contact k is recorded as failed, and once the campaign
\* is over every later contact k+1..N got a send attempt of its own after
\* that failure.  With 3 contacts of which only #2 fails the result is
\* total 3, success 2, fail 1 and the outcomes read success, failed, success.
C2_FailureIsolated ==
    /\ \A p \in Positions(trace, "send_err") :
          /\ Len(results) >= trace[p].current
          /\ results[trace[p].current].status = "failed"
          /\ results[trace[p].current].email = Items[trace[p].current].email
          /\ pc /= "done" \/ res.status = 200
          /\ pc = "done" =>
                \A j \in (trace[p].current + 1)..N :
                    \E q \in Positions(trace, "sendMail") : q > p /\ trace[q].current = j
    /\ \A p \in Positions(traceB, "send_err") :
          /\ \E m \in 1..Len(failedEmails) : failedEmails[m] = rows[traceB[p].current].email
          /\ pcB = "done" =>
                /\ result.returned
                /\ \A j \in (traceB[p].current + 1)..Len(rows) :
                      \E q \in Positions(traceB, "sendMail") : q > p /\ traceB[q].current = j
    /\ (StreamCompleted /\ N = 3 /\ delivery = << TRUE, FALSE, TRUE >>) =>
          /\ LastEvent.type = "complete"
          /\ LastEvent.total = 3
          /\ LastEvent.successful = 2
          /\ LastEvent.failed = 1
          /\ [k \in 1..3 |-> LastEvent.results[k].status] = << "success", "failed", "success" >>
    /\ (pcB = "done" /\ Len(rows) = 3 /\ delivery = << TRUE, FALSE, TRUE >>) =>
          /\ result.total = 3
          /\ result.success = 2
          /\ result.fail = 1
          /\ result.failedEmails = << rows[2].email >>

\* C2 witness: three contacts, only the second send failed, both modes over.
C2_Witness ==
    /\ StreamCompleted
    /\ pcB = "done"
    /\ N = 3
    /\ rows = Items
    /\ delivery = << TRUE, FALSE, TRUE >>
    /\ Count(trace, "sendMail") = 3

\* C3 (as claimed): if any contact of the list, at any position, has an
\* address that does not match local@domain.tld, the request is rejected with
\* a validation error (400) and sendMail is never called.
C3_InvalidEmailRejected ==
    (/\ HasCredentials
     /\ req.contacts.kind = "list"
     /\ \E k \in 1..N :
           ~Items[k].isNull /\ Items[k].email /= << >> /\ ~isValidEmail(Items[k].email))
    => /\ Count(trace, "sendMail") = 0
       /\ pc = "done" => res.status = 400

\* C4: if verify fails, the campaign reports one top-level error (a 500 JSON
\* answer that ends the response), sendMail is never called and no event, no
\* per-contact outcome is produced.
C4_VerifyFailure ==
    Count(trace, "verify_err") > 0 =>
       /\ pc = "done"
       /\ res = JsonResponse(500, "server_error")
       /\ Count(trace, "sendMail") = 0
       /\ events = << >>
       /\ results = << >>
       /\ successful = 0
       /\ failed = 0

\* C4 witness: the transport rejected verify for a valid request of 2 contacts.
C4_Witness ==
    /\ Count(trace, "verify_err") = 1
    /\ ValidRequest
    /\ N = 2

\* C5 (as claimed): a request whose contact list is absent, not a list, empty,
\* or holds an entry without a non-empty name, email or company is rejected
\* with a validation error (400) before verify or any send; nothing else is
\* produced.
C5_MalformedListRejected ==
    (/\ HasCredentials
     /\ \/ req.contacts.kind /= "list"
        \/ N = 0
        \/ \E k \in 1..N :
              \/ Items[k].isNull
              \/ Items[k].name = ""
              \/ Items[k].email = << >>
              \/ Items[k].company = "")
    => /\ trace = << >>
       /\ results = << >>
       /\ pc = "done" => res.status = 400 /\ res.ended

WaitsBetweenSends(tr, n) ==
    \A p \in Positions(tr, "wait") :
        /\ tr[p].current \in 1..(n - 1)
        /\ \E q \in SettledPositions(tr) :
              /\ q < p
              /\ tr[q].current = tr[p].current
              /\ \A m \in (q + 1)..(p - 1) : tr[m].type /= "sendMail"
        /\ \A q \in Positions(tr, "sendMail") :
              (q < p) = (tr[q].current <= tr[p].current)
        /\ \A p2 \in Positions(tr, "wait") : p2 /= p => tr[p2].current /= tr[p].current

\* C7: a campaign over N >= 1 contacts makes exactly N-1 inter-send waits:
\* one after the attempt for each contact but the last, whether the attempt
\* succeeded or failed, none after the last contact and none before the
\* first send.
C7_WaitsBetweenSends ==
    /\ WaitsBetweenSends(trace, N)
    /\ pc = "sending" => Count(trace, "wait") = Count(trace, "sendMail") - 1
    /\ pc = "waiting" => Count(trace, "wait") = Cardinality(SettledPositions(trace))
    /\ StreamCompleted => Count(trace, "wait") = N - 1
    /\ \A p \in Positions(trace, "wait") : trace[p].ms = StreamDelayMs
    /\ WaitsBetweenSends(traceB, Len(rows))
    /\ pcB = "sending" => Count(traceB, "wait") = Count(traceB, "sendMail") - 1
    /\ pcB = "waiting" => Count(traceB, "wait") = Cardinality(SettledPositions(traceB))
    /\ (pcB = "done" /\ Len(rows) >= 1) => Count(traceB, "wait") = Len(rows) - 1

\* C7 witness: three contacts, the first send failed, two waits in each mode.
C7_Witness ==
    /\ StreamCompleted
    /\ pcB = "done"
    /\ N = 3
    /\ rows = Items
    /\ delivery[1] = FALSE
    /\ Count(trace, "wait") = 2
    /\ Count(traceB, "wait") = 2

\* The number of sendMail calls not yet settled after the first n entries.
InFlight(tr, n) ==
    Cardinality({ p \in Positions(tr, "sendMail") : p <= n })
    - Cardinality({ p \in SettledPositions(tr) : p <= n })

\* The sends recorded in trace tr for the contacts cs are sequential and in
\* input order: never two calls in flight, the k-th call is addressed to the
\* k-th contact, and it starts after the call for contact k-1 settled.
SequentialSends(tr, cs) ==
    /\ \A n \in 0..Len(tr) : InFlight(tr, n) \in { 0, 1 }
    /\ \A p \in Positions(tr, "sendMail") :
          /\ tr[p].current = Cardinality({ q \in Positions(tr, "sendMail") : q <= p })
          /\ tr[p].current <= Len(cs)
          /\ tr[p].email = cs[tr[p].current].email
          /\ tr[p].current > 1 =>
                \E q \in SettledPositions(tr) : q < p /\ tr[q].current = tr[p].current - 1
    /\ \A p \in SettledPositions(tr) :
          \E q \in Positions(tr, "sendMail") : q < p /\ tr[q].current = tr[p].current

\* C8: within one campaign the sends are strictly sequential and in input
\* order: at most one sendMail is in flight at any time, the send for contact
\* k+1 starts only after the send for contact k settled, and a completed
\* campaign called sendMail exactly once per contact.
C8_SequentialSends ==
    /\ req.contacts.kind = "list" => SequentialSends(trace, Items)
    /\ (InFlight(trace, Len(trace)) = 1) = (pc = "sending")
    /\ StreamCompleted => Count(trace, "sendMail") = N
    /\ SequentialSends(traceB, rows)
    /\ (InFlight(traceB, Len(traceB)) = 1) = (pcB = "sending")
    /\ pcB = "done" => Count(traceB, "sendMail") = Len(rows)

\* C8 witness: both modes completed a campaign over three contacts.
C8_Witness ==
    /\ StreamCompleted
    /\ pcB = "done"
    /\ N = 3
    /\ rows = Items
    /\ Count(trace, "sendMail") = 3
    /\ Count(traceB, "sendMail") = 3

\* C9: in streamed mode exactly one `progress` event is written per contact,
\* immediately before that contact's sendMail call and in input order; the
\* event for the k-th contact carries current = k, total = N and the numbers
\* of successes and failures among the contacts before it.
C9_ProgressEvents ==
    /\ \A p \in Positions(trace, "sendMail") :
          /\ p > 1
          /\ trace[p - 1].type = "progress"
          /\ trace[p - 1].current = trace[p].current
          /\ trace[p - 1].email = trace[p].email
    /\ \A p \in Positions(trace, "progress") :
          /\ p < Len(trace)
          /\ trace[p + 1].type = "sendMail"
          /\ trace[p].current = Cardinality({ q \in Positions(trace, "progress") : q <= p })
          /\ trace[p].total = N
          /\ trace[p].contact = Items[trace[p].current].name
          /\ trace[p].email = Items[trace[p].current].email
          /\ trace[p].company = Items[trace[p].current].company
          /\ trace[p].successful = Cardinality({ q \in Positions(trace, "send_ok") : q < p })
          /\ trace[p].failed = Cardinality({ q \in Positions(trace, "send_err") : q < p })
          /\ trace[p].successful + trace[p].failed = trace[p].current - 1
    /\ StreamCompleted => Count(trace, "progress") = N

\* C9 witness: the progress event of the third contact, after one success and
\* one failure.
C9_Witness ==
    \E p \in Positions(trace, "progress") :
        /\ trace[p].current = 3
        /\ trace[p].successful = 1
        /\ trace[p].failed = 1

\* C10: a streamed campaign that passed validation and verification writes
\* `connected` first and `complete` last, once each, and nothing after
\* `complete`; for the same contacts and the same per-contact transport
\* outcomes the total, successful and failed of `complete` equal the total,
\* success and fail that sendEmails returns.
C10_StreamMatchesBuffered ==
    /\ Verified =>
          /\ Len(events) >= 1
          /\ events[1].type = "connected"
          /\ events[1].total = N
          /\ Count(trace, "connected") = 1
    /\ ~Verified => events = << >>
    /\ (Verified /\ pc = "done") =>
          /\ LastEvent.type = "complete"
          /\ Count(trace, "complete") = 1
    /\ \A p \in Positions(trace, "complete") :
          /\ p = Len(trace)
          /\ pc = "done"
          /\ res.ended
    /\ (StreamCompleted /\ pcB = "done" /\ rows = Items) =>
          /\ LastEvent.total = result.total
          /\ LastEvent.successful = result.success
          /\ LastEvent.failed = result.fail

\* C10 witness: the same two contacts went through both modes, one send
\* succeeded and one failed.
C10_Witness ==
    /\ StreamCompleted
    /\ pcB = "done"
    /\ rows = Items
    /\ N = 2
    /\ LastEvent.type = "complete"
    /\ LastEvent.successful = 1
    /\ result.fail = 1

\* C11: a top-level error is reported through the channel still open.  An
\* error before the stream headers (a rejected request, a TypeError during
\* validation, a rejected verify) is answered with an HTTP error status and a
\* JSON body and no event is ever written; an error after the stream was
\* opened is written as one `fatal_error` event, the last entry of the
\* stream, which is then ended, the status staying 200, and no `complete`
\* event is written.
C11_ErrorChannel ==
    /\ res.status \in { 400, 500 } =>
          /\ pc = "done"
          /\ res.ended
          /\ res.body /= "event-stream"
          /\ events = << >>
    /\ Count(trace, "verify_err") > 0 => res.status = 500
    /\ (pc = "done" /\ ~Verified) => res.status \in { 400, 500 }
    /\ Verified => res = [StreamHead EXCEPT !.ended = (pc = "done")]
    /\ \A p \in Positions(trace, "throw") :
          /\ res.status = 200
          /\ res.ended
          /\ pc = "done"
          /\ p + 1 = Len(trace)
          /\ trace[p + 1].type = "fatal_error"
          /\ Count(trace, "complete") = 0
    /\ Count(trace, "fatal_error") = Count(trace, "throw")
    /\ Count(trace, "fatal_error") <= 1

\* C11 witness: an exception after the first of three contacts failed; the
\* stream ends with `fatal_error`.
C11_Witness ==
    /\ Count(trace, "throw") = 1
    /\ N = 3
    /\ Count(trace, "error") = 1
    /\ LastEvent.type = "fatal_error"
    /\ res.status = 200
    /\ res.ended

PlaceholderNames == { "hr_name", "company", "sender_name", "sender_email" }

TokenOf(n) ==
    CASE n = "hr_name" -> HrNameToken
      [] n = "company" -> CompanyToken
      [] n = "sender_name" -> SenderNameToken
      [] OTHER -> SenderEmailToken

\* The text t from index k on, in which the first occurrence of each
\* placeholder named in `pending` is replaced by the value v gives it and
\* every other character is kept.
RECURSIVE Substitute(_, _, _, _)
Substitute(t, k, pending, v) ==
    IF k > Len(t) THEN << >>
    ELSE IF \E n \in pending : Occurs(t, TokenOf(n), k)
      THEN LET n == CHOOSE m \in pending : Occurs(t, TokenOf(m), k)
           IN v[n] \o Substitute(t, k + Len(TokenOf(n)), pending \ { n }, v)
    ELSE << t[k] >> \o Substitute(t, k + 1, pending, v)

\* The placeholders that occur in text t.
Present(t) == { n \in PlaceholderNames : IndexOf(t, TokenOf(n)) > 0 }

\* C13 (as claimed): for every template and every values of the variables,
\* personalize returns the template with each of the four placeholders that
\* occurs in it replaced (at its first occurrence, see C14) by the value of
\* its variable, and every other character, unknown placeholders such as
\* {foo} included, unchanged; "Dear {hr_name}, re {company}." with Sam and
\* Acme gives "Dear Sam, re Acme.".
C13_RenderSubstitutes ==
    pcP = "done" =>
       /\ rendered = Substitute(template, 1, PlaceholderNames, values)
       /\ (template = TplExample /\ values.hr_name = NameSam /\ values.company = NameAcme) =>
             rendered = << "D", "e", "a", "r", " " >> \o NameSam
                        \o << ",", " ", "r", "e", " " >> \o NameAcme \o << "." >>

\* C14 (as claimed): a placeholder that occurs more than once in the
\* template is substituted once, for every choice of values: the text up to
\* its first occurrence is rendered, the first occurrence is replaced by the
\* value, and in the text after it every later occurrence stays verbatim.
C14_SubstitutedOnce ==
    pcP = "done" =>
       \A n \in PlaceholderNames :
          LET tok == TokenOf(n)
              p == IndexOf(template, tok)
              head == SubSeq(template, 1, p - 1)
              tail == SubSeq(template, p + Len(tok), Len(template))
          IN (p > 0 /\ IndexOf(tail, tok) > 0) =>
                rendered = Substitute(head, 1, PlaceholderNames, values)
                           \o values[n]
                           \o Substitute(tail, 1, PlaceholderNames \ ({ n } \cup Present(head)),
                                         values)

\* C15 (as claimed): loading the template never makes a campaign fail.
\* Whether the template file is absent or lacks the subject block, the body
\* block, the sender name or the delay, sendEmails does not reject, the
\* configuration it works with has the default in place of every missing
\* part (delay 3), a non-negative integer as delay, and the campaign goes on
\* to send to the rows of the contact list.
C15_TemplateNeverFails ==
    pcB \in { "sending", "waiting", "done" } =>
       /\ config.loaded
       /\ (~configFile.exists \/ configFile.subject = << >>) =>
             config.subjectTemplate = DefaultSubject
       /\ (~configFile.exists \/ configFile.body = << >>) =>
             config.bodyTemplate = DefaultBody
       /\ (~configFile.exists \/ configFile.senderLine = << >>) =>
             config.senderName = DefaultSenderName
       /\ (~configFile.exists \/ configFile.delayLine = << >>) =>
             config.delay = DefaultDelay
       /\ config.delay \in Nat
       /\ Len(rows) > 0 => Count(traceB, "sendMail") > 0
       /\ pcB = "done" => result.returned

\* What a campaign that runs alone and passed verification writes from the
\* head of the loop with index k on, when the sends settled so far had the
\* outcomes outs: s, f and rs are the counters and the results at that loop
\* head, and `waiting` tells that the handler is in the wait that follows
\* the last settled send.
RECURSIVE AloneLoop(_, _, _, _, _, _)
AloneLoop(k, outs, waiting, s, f, rs) ==
    IF k >= N THEN << CompleteEvent(s, f, rs) >>
    ELSE IF k + 1 > Len(outs) THEN Attempt(k, s, f)
    ELSE LET ok == outs[k + 1]
             s2 == IF ok THEN s + 1 ELSE s
             f2 == IF ok THEN f ELSE f + 1
             rs2 == Append(rs, ResultRecord(k, IF ok THEN "success" ELSE "failed"))
             settled == << Settled(k, ContactAt(k), ok) >>
                        \o (IF ok THEN << >> ELSE << ErrorEvent(k) >>)
         IN Attempt(k, s, f) \o settled
            \o (IF k < N - 1 THEN << Timer(k, StreamDelayMs) >> ELSE << >>)
            \o (IF waiting /\ k + 1 = Len(outs) THEN << >>
                ELSE AloneLoop(k + 1, outs, waiting, s2, f2, rs2))

AloneTrace ==
    << Created(1), VerifyCall, VerifySettled(TRUE), ConnectedEvent >>
    \o AloneLoop(0, delivery, pc = "waiting", 0, 0, << >>)

\* C16: two requests handled concurrently are independent.  Under every
\* interleaving of the steps of the two handlers, what the running handler
\* has written, counted and recorded so far is exactly what a campaign over
\* its own contacts with its own transport outcomes writes, counts and
\* records when it runs alone; the suspended handler is the running one after
\* the next switch, so the same holds for it.
C16_CampaignsIndependent ==
    /\ pc = "start" => trace = << >> /\ res = NoResponse
    /\ pc = "verifying" => trace = << Created(1), VerifyCall >> /\ res = NoResponse
    /\ Count(trace, "verify_err") > 0 =>
          trace = << Created(1), VerifyCall, VerifySettled(FALSE) >> /\ delivery = << >>
    /\ Verified =>
          /\ trace = AloneTrace
          /\ successful = Cardinality({ k \in 1..Len(delivery) : delivery[k] })
          /\ failed = Cardinality({ k \in 1..Len(delivery) : ~delivery[k] })
          /\ results = [k \in 1..Len(delivery) |->
                          ResultRecord(k - 1, IF delivery[k] THEN "success" ELSE "failed")]
          /\ res = [StreamHead EXCEPT !.ended = (pc = "done")]
          /\ pc = "done" => Len(delivery) = N

\* C16 witness: two campaigns over different contact lists are under way at
\* the same time, the first send of one failed and that of the other did
\* not, and the running one has counted two failures.
C16_Witness ==
    /\ pc = "waiting"
    /\ other.pc = "sending"
    /\ req /= other.req
    /\ Len(other.delivery) = 1
    /\ other.delivery[1]
    /\ delivery = << FALSE, FALSE >>
    /\ failed = 2
    /\ other.successful = 1

IsSendErr(e) == e.type = "send_err"

\* The sends of sendEmails that were rejected so far, in the order in which
\* they settled.
FailedSends == SelectSeq(traceB, IsSendErr)

\* C17: the list of failed recipients that sendEmails builds and returns
\* holds exactly the addresses of the contacts whose send was rejected, one
\* entry per failed contact and in input order, and is as long as fail; a
\* rejected send never makes sendEmails reject: when it rejects, it does so
\* before any send.
C17_FailedRecipients ==
    /\ Len(failedEmails) = Len(FailedSends)
    /\ Len(failedEmails) = fail
    /\ \A m \in 1..Len(failedEmails) :
          /\ failedEmails[m] = rows[FailedSends[m].current].email
          /\ \A m2 \in 1..(m - 1) : FailedSends[m2].current < FailedSends[m].current
    /\ (pcB = "done" /\ result.returned) =>
          /\ result.failedEmails = failedEmails
          /\ Len(result.failedEmails) = result.fail
          /\ Cardinality(SettledPositions(traceB)) = Len(rows)
    /\ (pcB = "done" /\ ~result.returned) =>
          /\ Count(traceB, "sendMail") = 0
          /\ ~configFile.exists

\* C17 witness: of three rows the first and the third failed, they have
\* different addresses, and sendEmails returned both in that order.
C17_Witness ==
    /\ pcB = "done"
    /\ result.returned
    /\ Len(rows) = 3
    /\ rows[1].email /= rows[3].email
    /\ result.fail = 2
    /\ result.failedEmails = << rows[1].email, rows[3].email >>
    /\ delivery = << FALSE, TRUE, FALSE >>

\* C18: once validation and verification have passed, and provided every
\* sendMail settles and every timer fires, the campaign gets to the end of
\* the list: the streamed handler has then called sendMail for all N
\* contacts, recorded N results and written `complete` as its last event;
\* sendEmails has then settled a send for every row and returned the result.
\* No number of failures, all N included, ends the loop early.
C18_RunsToCompletion ==
    /\ Verified ~> (/\ pc = "done"
                    /\ Len(events) > 0
                    /\ LastEvent.type = "complete"
                    /\ Len(results) = N
                    /\ Count(trace, "sendMail") = N)
    /\ (pcB \in { "sending", "waiting" })
          ~> (/\ pcB = "done"
              /\ result.returned
              /\ result.total = Len(rows)
              /\ Cardinality(SettledPositions(traceB)) = Len(rows))

\* C18 witness: every send of a campaign over three contacts failed, in both
\* modes, and both got to the end.
C18_Witness ==
    /\ StreamCompleted
    /\ N = 3
    /\ LastEvent.type = "complete"
    /\ LastEvent.failed = 3
    /\ pcB = "done"
    /\ result.fail = 3
    /\ result.total = 3

\* The events written after position p of the trace.
EventsAfter(p) == { q \in (p + 1)..Len(trace) : IsEvent(trace[q]) }

\* C19: the streamed handler writes an `error` event for a contact if and
\* only if it records that contact as failed.  The event names the contact,
\* comes after the contact's `progress` event and the rejection of its send,
\* and the next event after it is the `progress` event of the next contact or
\* `complete`; so there are as many `error` events as the failed counter
\* says, and as the `complete` event says in the end.
C19_ErrorEvents ==
    /\ \A k \in 1..Len(results) :
          (results[k].status = "failed")
          = (\E p \in Positions(trace, "error") : trace[p].current = k)
    /\ \A p \in Positions(trace, "error") :
          /\ trace[p].current <= Len(results)
          /\ trace[p].email = Items[trace[p].current].email
          /\ trace[p].contact = Items[trace[p].current].name
          /\ trace[p - 1].type = "send_err"
          /\ trace[p - 1].current = trace[p].current
          /\ \E q \in Positions(trace, "progress") :
                q < p /\ trace[q].current = trace[p].current
          /\ \A q \in Positions(trace, "progress") :
                (q < p) = (trace[q].current <= trace[p].current)
          /\ \A q \in Positions(trace, "complete") : q > p
          /\ \A q \in EventsAfter(p) :
                (\A m \in EventsAfter(p) : q <= m) =>
                   \/ trace[q].type = "progress" /\ trace[q].current = trace[p].current + 1
                   \/ trace[q].type = "complete" /\ trace[p].current = N
          /\ \A p2 \in Positions(trace, "error") :
                p2 /= p => trace[p2].current /= trace[p].current
    /\ Count(trace, "error") = failed
    /\ StreamCompleted => LastEvent.failed = Count(trace, "error")

\* C19 witness: of three contacts the first and the third failed; the stream
\* is complete and holds two `error` events, for contacts 1 and 3.
C19_Witness ==
    /\ StreamCompleted
    /\ N = 3
    /\ Count(trace, "error") = 2
    /\ { trace[p].current : p \in Positions(trace, "error") } = { 1, 3 }
    /\ LastEvent.failed = 2
    /\ results[2].status = "success"

\* The transport objects created in trace tr are one, and it is the one that
\* verify was called on and that resolved it; every sendMail is called on it.
OneVerifiedSession(tr) ==
    /\ Count(tr, "createTransport") <= 1
    /\ Count(tr, "sendMail") > 0 =>
          /\ Count(tr, "createTransport") = 1
          /\ Count(tr, "verify_ok") = 1
    /\ \A p \in Positions(tr, "sendMail") :
          /\ \E c \in Positions(tr, "createTransport") :
                c < p /\ tr[c].session = tr[p].session
          /\ \E v \in Positions(tr, "verify") :
                v < p /\ tr[v].session = tr[p].session
          /\ \A q \in Positions(tr, "sendMail") : tr[q].session = tr[p].session

\* C20 (as claimed): a campaign establishes exactly one transport session,
\* the one that was verified; every send of the campaign goes through it and
\* no further session is created while the campaign runs, in streamed mode
\* and in buffered mode.
C20_OneSession ==
    /\ OneVerifiedSession(trace)
    /\ OneVerifiedSession(traceB)


\* The key a request presents: the x-api-key header, or else the api_key
\* query parameter.
PresentedKey == apiKeyOf(headerKey, queryKey)

\* The configured keys: the maximal comma-free stretches of API_KEYS.
ConfiguredKeys ==
    IF envApiKeys = << >> THEN { }
    ELSE { SubSeq(envApiKeys, a, b) : << a, b >> \in
             { ab \in (1..(Len(envApiKeys) + 1)) \X (0..Len(envApiKeys)) :
                 /\ ab[1] <= ab[2] + 1
                 /\ \A p \in ab[1]..ab[2] : envApiKeys[p] /= ","
                 /\ ab[1] = 1 \/ envApiKeys[ab[1] - 1] = ","
                 /\ ab[2] = Len(envApiKeys) \/ envApiKeys[ab[2] + 1] = "," } }

\* A transport was created, verified or used to send.
TransportUsed ==
    Count(trace, "createTransport") + Count(trace, "verify") + Count(trace, "sendMail") > 0

\* The middleware answered the request with this status and nothing else
\* happened.
Denied(code) == pc = "done" /\ res.status = code /\ res.ended /\ trace = << >>

\* C21: for a request to POST /api/send-emails or POST /api/test-connection
\* no transport is created, verified or used unless the key the request
\* presents is one of the configured keys; once past the middleware, a
\* request without a key has been answered 401, one with a key that is not
\* configured 403, and with no key configured every keyed request 403.
C21_KeyGate ==
    /\ TransportUsed => PresentedKey \in ConfiguredKeys
    /\ pc /= "gate" /\ PresentedKey = << >> => Denied(401)
    /\ pc /= "gate" /\ PresentedKey /= << >> /\ PresentedKey \notin ConfiguredKeys => Denied(403)
    /\ pc /= "gate" /\ PresentedKey /= << >> /\ envApiKeys = << >> => Denied(403)

\* A request for a connection test whose only key, given in the query string,
\* differs from both configured keys by the space after the comma, has been
\* answered 403.
C21_Witness ==
    /\ route = "test-connection"
    /\ headerKey = << >>
    /\ queryKey = KeyTwo
    /\ envApiKeys = << "k", "1", ",", " ", "k", "2" >>
    /\ isValidEmail(testBody.email)
    /\ testBody.appPassword = "pw"
    /\ Denied(403)


\* The terminal forms of a response of POST /api/send-emails.
Json400 == res.status = 400 /\ res.body /= "event-stream" /\ events = << >>
Json500 == res.status = 500 /\ res.body /= "event-stream" /\ events = << >>
StreamEndedAfter(t) ==
    /\ res.status = 200
    /\ res.body = "event-stream"
    /\ events /= << >>
    /\ LastEvent.type = t
    /\ Count(trace, "complete") + Count(trace, "fatal_error") = 1
TerminalForms ==
    << Json400, Json500, StreamEndedAfter("complete"), StreamEndedAfter("fatal_error") >>

\* C22: the handler of POST /api/send-emails is over exactly when the
\* response is ended; an ended response has exactly one of the four terminal
\* forms (400 JSON, 500 JSON, stream ended after complete, stream ended after
\* fatal_error); no complete or fatal_error is written to an open response
\* without ending it; and once the response is ended, it is not ended again
\* and nothing more is written, also when the client has closed the
\* connection mid-loop or an exception is raised between two contacts.
C22_OneTerminalResponse ==
    /\ [](pc = "done" <=> res.ended)
    /\ [](res.ended => Cardinality({ k \in 1..4 : TerminalForms[k] }) = 1)
    /\ [](~res.ended => Count(trace, "complete") + Count(trace, "fatal_error") = 0)
    /\ [][res.ended => res' = res /\ trace' = trace]_vars

\* The client closed the connection during a campaign, a progress event was
\* written after that, and the response was ended after complete.
C22_Witness ==
    /\ pc = "done"
    /\ sinkClosedAt >= 0
    /\ \E p \in (sinkClosedAt + 1)..Len(trace) : trace[p].type = "progress"
    /\ StreamEndedAfter("complete")


\* C23: every file a request uploaded is in the upload directory under the
\* name it was stored under and is still that request's, and no two uploads
\* of different requests were stored under the same name.
C23_UploadsOwned ==
    /\ \A p \in 1..Len(received) :
         [filename |-> received[p].filename, owner |-> received[p].request] \in stored
    /\ \A p \in 1..Len(received) : \A q \in 1..Len(received) :
         received[p].request /= received[q].request
             => received[p].filename /= received[q].filename

=============================================================================
